---- MODULE Spec2Model ----
(***************************************************************************)
(* A model of the CoFlow steady-state client (src/coflow.py):              *)
(*   - CoFlow.open_steady_state / create_init_request / close_steady_state *)
(*   - SteadyState.run / SteadyState.query                                 *)
(*   - SteadyStateModel.run, the facade that sequences them in try/finally *)
(* The remote service is the environment: every HTTP response (status and  *)
(* body) is chosen nondeterministically from small sets.                   *)
(*                                                                         *)
(* Strings that the code parses (the model path) are sequences of tokens:  *)
(* a token is a delimiter character ("/", ":", "?", "[") or a name, which  *)
(* stands for a non-empty run of letters.                                  *)
(***************************************************************************)
EXTENDS Integers, Sequences, FiniteSets, TLC

\* ------------------------------------------------------------------ bounds
\* Most Pending answers the service gives to the session-status poll.
MaxPolls == 2
\* Most non-terminal answers the service gives to the run-status poll.
MaxRunPolls == 1
\* Most '/'-separated pieces in a generated model path.
MaxSegs == 5

\* ------------------------------------------------------- program constants
OK == 200
CREATED == 201
ACCEPTED == 202
UNAUTHORIZED == 401
METHOD_NOT_ALLOWED == 405
Unknown == 0
Pending == 100
Running == 200
Failed == 300
\* time.sleep arguments
PollInterval == 1
SettleDelay == 3
RunPollInterval == 1

\* The status codes the service answers with: the ones the code names, and 500,
\* which no branch of the code expects.
HttpStatuses == {OK, CREATED, ACCEPTED, UNAUTHORIZED, METHOD_NOT_ALLOWED, 500}
\* The "statusCode" values of a session-status body: the members of
\* CoFlowSessionStatus, and 999, which is no member.
CoFlowCodes == {Unknown, Pending, Running, Failed, 999}
RunStatuses == {"Running", "Succeeded", "Failed"}

\* ------------------------------------------------------------ token strings
Delims == {"/", ":", "?", "["}

IsName(tok) == tok \notin Delims

\* str.find: the first position (1-based) of tok in s at or after from, 0 if none.
Find(s, tok, from) ==
    LET hits == {k \in from..Len(s) : s[k] = tok}
    IN  IF hits = {} THEN 0 ELSE CHOOSE k \in hits : \A j \in hits : k <= j

\* s[a:] in 1-based positions.
Tail_from(s, a) == SubSeq(s, a, Len(s))

\* str.split("/"): the pieces between the "/" tokens; "" splits to [""].
\* cut(n) is the position of the n-th "/", cut(0) the position before s and
\* the cut after the last "/" the position after s.
split(s) ==
    LET hits == {k \in 1..Len(s) : s[k] = "/"}
        cut(n) == IF n = 0 THEN 0
                  ELSE IF n > Cardinality(hits) THEN Len(s) + 1
                  ELSE CHOOSE p \in hits : Cardinality({q \in hits : q < p}) = n - 1
    IN  [n \in 1..(Cardinality(hits) + 1) |-> SubSeq(s, cut(n - 1) + 1, cut(n) - 1)]

\* urllib.parse._splitnetloc(url, 2): the authority ends at the first "/" or "?".
splitnetloc_end(url) ==
    LET ds == {k \in 3..Len(url) : url[k] \in {"/", "?"}}
    IN  IF ds = {} THEN Len(url) + 1 ELSE CHOOSE k \in ds : \A j \in ds : k <= j

\* urllib.parse.urlsplit on token strings: an optional scheme (names up to the
\* first ":"), an authority after a leading "//", the path up to the first "?".
\* A "[" in the authority is an invalid IPv6 literal (no name is an address).
urlsplit(url) ==
    LET i == Find(url, ":", 1)
        hasScheme == i > 1 /\ \A k \in 1..(i - 1) : IsName(url[k])
        rest1 == IF hasScheme THEN Tail_from(url, i + 1) ELSE url
        hasNetloc == Len(rest1) >= 2 /\ rest1[1] = "/" /\ rest1[2] = "/"
        delim == splitnetloc_end(rest1)
        netloc == IF hasNetloc THEN SubSeq(rest1, 3, delim - 1) ELSE <<>>
        rest2 == IF hasNetloc THEN Tail_from(rest1, delim) ELSE rest1
        q == Find(rest2, "?", 1)
        path == IF q > 0 THEN SubSeq(rest2, 1, q - 1) ELSE rest2
    IN  [exc |-> IF \E k \in 1..Len(netloc) : netloc[k] = "[" THEN "ValueError" ELSE "none",
         netloc |-> netloc,
         path |-> path]

\* What create_init_request gives back: exc = "none" and the four names of the
\* init request, or the exception it re-raises (and no request).
NoRequest(exc) ==
    [exc |-> exc, repositoryName |-> <<>>, projectName |-> <<>>,
     studyName |-> <<>>, caseName |-> <<>>]

\* A variant that takes components 0, 1 and 2.
create_init_request_off_by_one(path) ==
    LET u == urlsplit(path)
        components == split(u.path)
    IN  IF u.exc # "none" THEN NoRequest(u.exc)
        ELSE IF Len(components) < 3 THEN NoRequest("IndexError")
        ELSE [exc |-> "none",
              repositoryName |-> u.netloc,
              projectName |-> components[1],
              studyName |-> components[2],
              caseName |-> components[3]]

\* A variant that fills a missing component with "" instead of failing.
create_init_request_padded(path) ==
    LET u == urlsplit(path)
        components == split(u.path)
        at(k) == IF k <= Len(components) THEN components[k] ELSE <<>>
    IN  IF u.exc # "none" THEN NoRequest(u.exc)
        ELSE [exc |-> "none",
              repositoryName |-> u.netloc,
              projectName |-> at(2),
              studyName |-> at(3),
              caseName |-> at(4)]

create_init_request(path) ==
    LET u == urlsplit(path)
        components == split(u.path)
    IN  IF u.exc # "none" THEN NoRequest(u.exc)
        ELSE IF Len(components) < 4 THEN NoRequest("IndexError")
        ELSE [exc |-> "none",
              repositoryName |-> u.netloc,
              projectName |-> components[2],
              studyName |-> components[3],
              caseName |-> components[4]]

\* ------------------------------------------------------- model path inputs
\* The i-th piece of a generated path.
SegName(i) == IF i <= 4 THEN <<"repo", "projA", "studyB", "caseC">>[i] ELSE "extra"

\* "/".join(pieces)
RECURSIVE join(_)
join(pieces) ==
    IF Len(pieces) = 0 THEN <<>>
    ELSE IF Len(pieces) = 1 THEN pieces[1]
    ELSE pieces[1] \o <<"/">> \o join(Tail(pieces))

Prefixes ==
    {<<>>, <<"/">>, <<"/", "/">>, <<"s", ":">>, <<"s", ":", "/", "/">>, <<"/", "/", "[">>}

Suffixes == {<<>>, <<"?", "q">>}

\* Paths of up to MaxSegs pieces (each a name or empty), with or without a
\* scheme, an authority marker and a query.
PathInputs ==
    {pre \o join([i \in 1..n |-> IF i \in S THEN <<SegName(i)>> ELSE <<>>]) \o suf :
        pre \in Prefixes, suf \in Suffixes,
        n \in 0..MaxSegs, S \in SUBSET (1..MaxSegs)}

\* The model paths the facade is configured with in the workflow.
ModelPaths ==
    {<<"/", "/", "repo", "/", "projA", "/", "studyB", "/", "caseC">>,
     <<"repo", "/", "projA", "/", "studyB", "/", "caseC">>,
     <<"/", "/", "repo", "/", "projA", "/", "studyB">>,
     <<"/", "/", "repo", "/", "projA", "/", "studyB", "/">>,
     <<"s", ":", "/", "/", "repo", "/", "projA", "/", "studyB", "/", "caseC", "/", "extra">>,
     <<"/", "/", "[", "repo", "/", "projA", "/", "studyB", "/", "caseC">>,
     <<"/", "/", "repo", "/", "projA">>,
     <<"/", "/", "repo">>,
     <<"/", "projA", "/", "studyB">>,
     <<"repo", "/", "projA">>,
     <<"/", "/", "repo", "/", "projA", "/", "studyB", "?", "/", "caseC">>,
     <<>>}

\* --------------------------------------------------------- facade inputs
InputAliases == {"oil_rate", "gas_rate"}
\* input_defs: the declared input aliases (each with its property path).
InputDefSets == {{"oil_rate"}, {"oil_rate", "gas_rate"}}
InputPath(alias) == <<"in", alias>>

OutputAliases == {"bhp", "thp"}
PropPaths == {"p_bhp", "p_thp"}
\* A property path the facade never asks for.
OtherPath == "p_other"

\* output_defs: a dict in insertion order, as a sequence of <<alias, path>> with
\* distinct aliases; two aliases may name the same path.
OutputDefSeqs ==
    {<<>>}
    \cup {<<<<a, p>>>> : a \in OutputAliases, p \in PropPaths}
    \cup {d \in {<<<<a, p>>, <<b, q>>>> :
                    a \in OutputAliases, b \in OutputAliases,
                    p \in PropPaths, q \in PropPaths} : d[1][1] # d[2][1]}

\* --------------------------------------------------------------- state
VARIABLES
    model_path,     \* SteadyStateModel.model_path
    input_defs,     \* SteadyStateModel.input_defs (its aliases)
    output_defs,    \* SteadyStateModel.output_defs
    input_values,   \* the aliases the caller supplies a value for
    pc,             \* the position of the one thread of control
    reqs,           \* every HTTP request issued so far, with its response
    sleeps,         \* every time.sleep so far: <<the loop it is in, its seconds>>
    calls,          \* the client methods entered so far
    outcome,        \* per client method: not_called, active, returned or the exception raised
    location,       \* open_steady_state's local: unset, None or the Location header
    model,          \* SteadyStateModel.run's local: unbound or bound
    init_request,   \* what create_init_request gave
    output,         \* SteadyStateModel.run's local output, as <<alias, value>> pairs
    try_exc,        \* the exception the try body raised ("none": it did not)
    exc,            \* the exception in flight; at pc = "done", the one the caller gets
    exc_site        \* the position (pc) whose code raised the exception in flight

vars == <<model_path, input_defs, output_defs, input_values, pc, reqs, sleeps, calls,
          outcome, location, model, init_request, output, try_exc, exc, exc_site>>

config == <<model_path, input_defs, output_defs, input_values>>

Methods == {"open_steady_state", "run", "query", "close_steady_state"}

\* One request and its response. code: the session-status body's statusCode;
\* run_status: the run-status body's status; props: the property paths of the
\* body sent (run, query) and of the body received (query).
\* result: what the caller made of the response ("ok", "sleep", ..., or the
\* exception it raised).
Req(op, status, result, code, run_status, sent, received) ==
    [op |-> op, status |-> status, result |-> result, code |-> code,
     run_status |-> run_status, sent |-> sent, received |-> received]

Plain(op, status, result) == Req(op, status, result, -1, "", {}, {})

PendingSeen ==
    Cardinality({i \in 1..Len(reqs) :
        reqs[i].op = "poll_session" /\ reqs[i].status = OK /\ reqs[i].code = Pending})

NonTerminalSeen ==
    Cardinality({i \in 1..Len(reqs) :
        reqs[i].op = "poll_run" /\ reqs[i].status = OK /\ reqs[i].run_status = "Running"})

TypeOK ==
    /\ pc \in {"start", "open", "poll", "init", "cleanup", "run", "runpoll", "query",
               "finally", "done", "unit", "unit_done"}
    /\ outcome \in [Methods -> STRING]
    /\ location \in {"unset", "None", "loc"}
    /\ model \in {"unbound", "bound"}

Init ==
    /\ model_path \in ModelPaths
    /\ input_defs \in InputDefSets
    /\ output_defs \in OutputDefSeqs
    /\ input_values \in SUBSET InputAliases
    /\ pc = "start"
    /\ reqs = <<>>
    /\ sleeps = <<>>
    /\ calls = <<>>
    /\ outcome = [m \in Methods |-> "not_called"]
    /\ location = "unset"
    /\ model = "unbound"
    /\ init_request = NoRequest("not_built")
    /\ output = {}
    /\ try_exc = "none"
    /\ exc = "none"
    /\ exc_site = "none"

\* An exception leaves the try body of SteadyStateModel.run: the finally clause is next.
RaiseInTry(kind) ==
    /\ try_exc' = kind
    /\ exc' = kind
    /\ exc_site' = pc
    /\ pc' = "finally"

\* ------------------------------------------------ SteadyStateModel.run
\* The input payload: input_values[alias] for every declared alias.
input_prop_payload == {InputPath(a) : a \in input_defs}
output_prop_payload == {output_defs[i][2] : i \in 1..Len(output_defs)}

\* output_lookup[prop["path"]] = (key, prop): a later alias of the same path
\* replaces the earlier one.
output_lookup(p) ==
    LET is == {i \in 1..Len(output_defs) : output_defs[i][2] = p}
    IN  output_defs[CHOOSE i \in is : \A j \in is : j <= i][1]

\* The loop over model_output["properties"]: output[alias] = value, the value
\* being the one the service holds for the path (named by the path here).
translate(received) == {<<output_lookup(p), p>> : p \in received}

\* A variant that looks the input values up only when the run payload is sent.
BuildPayloads_lazy_lookup ==
    /\ pc = "start"
    /\ pc' = "open"
    /\ UNCHANGED <<config, reqs, sleeps, calls, outcome, location, model, init_request,
                   output, try_exc, exc, exc_site>>

BuildPayloads ==
    /\ pc = "start"
    /\ IF \E a \in input_defs : a \notin input_values
       THEN /\ exc' = "KeyError"
            /\ exc_site' = "start"
            /\ pc' = "done"
       ELSE /\ pc' = "open"
            /\ UNCHANGED <<exc, exc_site>>
    /\ UNCHANGED <<config, reqs, sleeps, calls, outcome, location, model, init_request,
                   output, try_exc>>

\* ------------------------------------------- CoFlow.open_steady_state
\* A variant that knows 401 only.
create_outcome_401_only(status) ==
    IF status = UNAUTHORIZED THEN "AuthError"
    ELSE IF status # ACCEPTED THEN "SessionError"
    ELSE "ok"

create_outcome(status) ==
    IF status = UNAUTHORIZED \/ status = METHOD_NOT_ALLOWED THEN "AuthError"
    ELSE IF status # ACCEPTED THEN "SessionError"
    ELSE "ok"

CreateSession ==
    /\ pc = "open"
    /\ \E status \in HttpStatuses, has_location \in BOOLEAN :
        /\ reqs' = Append(reqs, Plain("create_session", status, create_outcome(status)))
        /\ calls' = Append(calls, "open_steady_state")
        /\ IF create_outcome(status) = "ok"
           THEN /\ location' = IF has_location THEN "loc" ELSE "None"
                /\ outcome' = [outcome EXCEPT !["open_steady_state"] = "active"]
                /\ pc' = "poll"
                /\ UNCHANGED <<try_exc, exc, exc_site>>
           ELSE /\ outcome' = [outcome EXCEPT !["open_steady_state"] = create_outcome(status)]
                /\ RaiseInTry(create_outcome(status))
                /\ UNCHANGED location
    /\ UNCHANGED <<config, sleeps, model, init_request, output>>

\* A variant with a retry policy: it gives up at the second Pending answer.
poll_outcome_max_attempts(status, code) ==
    IF status # OK THEN "SessionError"
    ELSE IF code = Pending THEN (IF PendingSeen >= 1 THEN "TimeoutError" ELSE "sleep")
    ELSE IF code = Running THEN "break"
    ELSE "CoFlowError"

\* A variant that leaves the loop on Failed as it does on Running.
poll_outcome_failed_breaks(status, code) ==
    IF status # OK THEN "SessionError"
    ELSE IF code = Pending THEN "sleep"
    ELSE IF code = Running \/ code = Failed THEN "break"
    ELSE "CoFlowError"

\* A variant whose last branch takes an unrecognized code for a live session.
poll_outcome_unknown_breaks(status, code) ==
    IF status # OK THEN "SessionError"
    ELSE IF code = Pending THEN "sleep"
    ELSE IF code = Running THEN "break"
    ELSE IF code = Failed THEN "CoFlowError"
    ELSE "break"

poll_outcome(status, code) ==
    IF status # OK THEN "SessionError"
    ELSE IF code = Pending THEN "sleep"
    ELSE IF code = Running THEN "break"
    ELSE IF code = Failed THEN "CoFlowError"
    ELSE "CoFlowError"

PollSession ==
    /\ pc = "poll"
    /\ IF location = "None"
       THEN \* self.url + location with location None
            /\ outcome' = [outcome EXCEPT !["open_steady_state"] = "TypeError"]
            /\ RaiseInTry("TypeError")
            /\ UNCHANGED <<reqs, sleeps>>
       ELSE \E status \in HttpStatuses :
            \E code \in (IF status = OK THEN CoFlowCodes ELSE {-1}) :
                /\ code = Pending => PendingSeen < MaxPolls
                /\ reqs' = Append(reqs, Req("poll_session", status, poll_outcome(status, code), code, "", {}, {}))
                /\ CASE poll_outcome(status, code) = "sleep" ->
                            /\ sleeps' = Append(sleeps, <<"poll_session", PollInterval>>)
                            /\ UNCHANGED <<pc, outcome, try_exc, exc, exc_site>>
                     [] poll_outcome(status, code) = "break" ->
                            /\ pc' = "init"
                            /\ UNCHANGED <<sleeps, outcome, try_exc, exc, exc_site>>
                     [] OTHER ->
                            /\ outcome' = [outcome EXCEPT
                                   !["open_steady_state"] = poll_outcome(status, code)]
                            /\ RaiseInTry(poll_outcome(status, code))
                            /\ UNCHANGED sleeps
    /\ UNCHANGED <<config, calls, location, model, init_request, output>>

\* A variant that does not look at the init response.
init_outcome_unchecked(status) == "ok"

init_outcome(status) == IF status # CREATED THEN "cleanup" ELSE "ok"

InitSession ==
    /\ pc = "init"
    /\ sleeps' = Append(sleeps, <<"settle", SettleDelay>>)
    /\ init_request' = create_init_request(model_path)
    /\ IF create_init_request(model_path).exc # "none"
       THEN /\ outcome' = [outcome EXCEPT
                   !["open_steady_state"] = create_init_request(model_path).exc]
            /\ RaiseInTry(create_init_request(model_path).exc)
            /\ UNCHANGED <<reqs, model>>
       ELSE \E status \in HttpStatuses :
            /\ reqs' = Append(reqs, Plain("init", status, init_outcome(status)))
            /\ IF init_outcome(status) = "ok"
               THEN /\ model' = "bound"
                    /\ outcome' = [outcome EXCEPT !["open_steady_state"] = "returned"]
                    /\ pc' = "run"
               ELSE /\ pc' = "cleanup"
                    /\ UNCHANGED <<model, outcome>>
            /\ UNCHANGED <<try_exc, exc, exc_site>>
    /\ UNCHANGED <<config, calls, location, output>>

\* CoFlow._close_state_state_session: after the DELETE it reads response.codes,
\* which a requests.Response does not have.
cleanup_outcome(status) == "AttributeError"

CleanupDelete ==
    /\ pc = "cleanup"
    /\ \E status \in HttpStatuses :
        /\ reqs' = Append(reqs, Plain("cleanup_delete", status, cleanup_outcome(status)))
        /\ LET raised == IF cleanup_outcome(status) = "swallowed"
                         THEN "SessionError" ELSE cleanup_outcome(status)
           IN  /\ outcome' = [outcome EXCEPT !["open_steady_state"] = raised]
               /\ RaiseInTry(raised)
    /\ UNCHANGED <<config, sleeps, calls, location, model, init_request, output>>

\* ------------------------------------------------------- SteadyState
run_post_outcome(status) == IF status # ACCEPTED THEN "SessionError" ELSE "ok"

\* A variant that sends the run POST once more after a refusal.
RunPost_retry_once ==
    /\ pc = "run"
    /\ calls' = IF \E i \in 1..Len(reqs) : reqs[i].op = "run" THEN calls ELSE Append(calls, "run")
    /\ \E status \in HttpStatuses :
        /\ reqs' = Append(reqs, Req("run", status, run_post_outcome(status), -1, "", input_prop_payload, {}))
        /\ IF run_post_outcome(status) = "ok"
           THEN /\ outcome' = [outcome EXCEPT !["run"] = "active"]
                /\ pc' = "runpoll"
                /\ UNCHANGED <<try_exc, exc, exc_site>>
           ELSE IF \E i \in 1..Len(reqs) : reqs[i].op = "run"
           THEN /\ outcome' = [outcome EXCEPT !["run"] = run_post_outcome(status)]
                /\ RaiseInTry(run_post_outcome(status))
           ELSE UNCHANGED <<outcome, pc, try_exc, exc, exc_site>>
    /\ UNCHANGED <<config, sleeps, location, model, init_request, output>>

RunPost ==
    /\ pc = "run"
    /\ calls' = Append(calls, "run")
    /\ \E status \in HttpStatuses :
        /\ reqs' = Append(reqs, Req("run", status, run_post_outcome(status), -1, "", input_prop_payload, {}))
        /\ IF run_post_outcome(status) = "ok"
           THEN /\ outcome' = [outcome EXCEPT !["run"] = "active"]
                /\ pc' = "runpoll"
                /\ UNCHANGED <<try_exc, exc, exc_site>>
           ELSE /\ outcome' = [outcome EXCEPT !["run"] = run_post_outcome(status)]
                /\ RaiseInTry(run_post_outcome(status))
    /\ UNCHANGED <<config, sleeps, location, model, init_request, output>>

\* A variant that goes on polling after a failed run.
run_poll_outcome_failed_polls_on(status, run_status) ==
    IF status # OK THEN "SessionError"
    ELSE IF run_status = "Succeeded" THEN "done"
    ELSE "sleep"

\* A variant that takes a failed run for an error.
run_poll_outcome_failed_raises(status, run_status) ==
    IF status # OK THEN "SessionError"
    ELSE IF run_status = "Succeeded" THEN "done"
    ELSE IF run_status = "Failed" THEN "CoFlowError"
    ELSE "sleep"

run_poll_outcome(status, run_status) ==
    IF status # OK THEN "SessionError"
    ELSE IF run_status = "Succeeded" \/ run_status = "Failed" THEN "done"
    ELSE "sleep"

RunPoll ==
    /\ pc = "runpoll"
    /\ \E status \in HttpStatuses :
       \E run_status \in (IF status = OK THEN RunStatuses ELSE {""}) :
        /\ run_status = "Running" => NonTerminalSeen < MaxRunPolls
        /\ reqs' = Append(reqs, Req("poll_run", status, run_poll_outcome(status, run_status), -1, run_status, {}, {}))
        /\ CASE run_poll_outcome(status, run_status) = "sleep" ->
                    /\ sleeps' = Append(sleeps, <<"poll_run", RunPollInterval>>)
                    /\ UNCHANGED <<pc, outcome, try_exc, exc, exc_site>>
             [] run_poll_outcome(status, run_status) = "done" ->
                    /\ outcome' = [outcome EXCEPT !["run"] = "returned"]
                    /\ pc' = "query"
                    /\ UNCHANGED <<sleeps, try_exc, exc, exc_site>>
             [] OTHER ->
                    /\ outcome' = [outcome EXCEPT
                           !["run"] = run_poll_outcome(status, run_status)]
                    /\ RaiseInTry(run_poll_outcome(status, run_status))
                    /\ UNCHANGED sleeps
    /\ UNCHANGED <<config, calls, location, model, init_request, output>>

\* A variant that tells an authentication failure apart.
query_outcome_auth(status) ==
    IF status = UNAUTHORIZED \/ status = METHOD_NOT_ALLOWED THEN "AuthError"
    ELSE IF status # OK THEN "SessionError"
    ELSE "ok"

query_outcome(status) == IF status # OK THEN "SessionError" ELSE "ok"

\* SteadyState.query and the translation of its answer (lines 308-317).
Query ==
    /\ pc = "query"
    /\ calls' = Append(calls, "query")
    /\ \E status \in HttpStatuses :
       \E received \in (IF status = OK THEN SUBSET (PropPaths \cup {OtherPath}) ELSE {{}}) :
        /\ reqs' = Append(reqs, Req("query", status, query_outcome(status), -1, "", output_prop_payload, received))
        /\ IF query_outcome(status) # "ok"
           THEN /\ outcome' = [outcome EXCEPT !["query"] = query_outcome(status)]
                /\ RaiseInTry(query_outcome(status))
                /\ UNCHANGED output
           ELSE /\ outcome' = [outcome EXCEPT !["query"] = "returned"]
                /\ IF \E p \in received : p \notin output_prop_payload
                   THEN \* output_lookup[path] with a path that was never asked for
                        /\ RaiseInTry("KeyError")
                        /\ UNCHANGED output
                   ELSE /\ output' = translate(received)
                        /\ pc' = "finally"
                        /\ UNCHANGED <<try_exc, exc, exc_site>>
    /\ UNCHANGED <<config, sleeps, location, model, init_request>>

\* --------------------------------------- finally: close_steady_state(model)
\* A variant that expects 200 of the DELETE.
close_outcome_expects_ok(status) == IF status # OK THEN "SessionError" ELSE "ok"

close_outcome(status) == IF status # ACCEPTED THEN "SessionError" ELSE "ok"

\* What reading the local `model` in the finally clause gives.
finally_model == IF model = "unbound" THEN "UnboundLocalError" ELSE "ok"

\* A variant that closes after the try body instead of in a finally clause.
Finally_close_after_try ==
    /\ pc = "finally"
    /\ pc' = "done"
    /\ IF try_exc # "none"
       THEN UNCHANGED <<reqs, calls, outcome, exc, exc_site>>
       ELSE /\ calls' = Append(calls, "close_steady_state")
            /\ \E status \in HttpStatuses :
                /\ reqs' = Append(reqs, Plain("close_session", status, close_outcome(status)))
                /\ IF close_outcome(status) = "ok"
                   THEN /\ outcome' = [outcome EXCEPT !["close_steady_state"] = "returned"]
                        /\ UNCHANGED <<exc, exc_site>>
                   ELSE /\ outcome' = [outcome EXCEPT
                               !["close_steady_state"] = close_outcome(status)]
                        /\ exc' = close_outcome(status)
                        /\ exc_site' = "finally"
    /\ UNCHANGED <<config, sleeps, location, model, init_request, output, try_exc>>

\* A variant whose close failure does not hide an error of the try body.
Finally_keeps_original ==
    /\ pc = "finally"
    /\ pc' = "done"
    /\ IF finally_model # "ok"
       THEN /\ exc' = finally_model
            /\ exc_site' = "finally"
            /\ UNCHANGED <<reqs, calls, outcome>>
       ELSE /\ calls' = Append(calls, "close_steady_state")
            /\ \E status \in HttpStatuses :
                /\ reqs' = Append(reqs, Plain("close_session", status, close_outcome(status)))
                /\ IF close_outcome(status) = "ok"
                   THEN /\ outcome' = [outcome EXCEPT !["close_steady_state"] = "returned"]
                        /\ UNCHANGED <<exc, exc_site>>
                   ELSE /\ outcome' = [outcome EXCEPT
                               !["close_steady_state"] = close_outcome(status)]
                        /\ IF try_exc # "none"
                           THEN UNCHANGED <<exc, exc_site>>
                           ELSE /\ exc' = close_outcome(status)
                                /\ exc_site' = "finally"
    /\ UNCHANGED <<config, sleeps, location, model, init_request, output, try_exc>>

Finally ==
    /\ pc = "finally"
    /\ pc' = "done"
    /\ IF finally_model # "ok"
       THEN /\ exc' = finally_model
            /\ exc_site' = "finally"
            /\ UNCHANGED <<reqs, calls, outcome>>
       ELSE /\ calls' = Append(calls, "close_steady_state")
            /\ \E status \in HttpStatuses :
                /\ reqs' = Append(reqs, Plain("close_session", status, close_outcome(status)))
                /\ IF close_outcome(status) = "ok"
                   THEN /\ outcome' = [outcome EXCEPT !["close_steady_state"] = "returned"]
                        /\ UNCHANGED <<exc, exc_site>>
                   ELSE /\ outcome' = [outcome EXCEPT
                               !["close_steady_state"] = close_outcome(status)]
                        /\ exc' = close_outcome(status)
                        /\ exc_site' = "finally"
    /\ UNCHANGED <<config, sleeps, location, model, init_request, output, try_exc>>

Next ==
    \/ BuildPayloads
    \/ CreateSession
    \/ PollSession
    \/ InitSession
    \/ CleanupDelete
    \/ RunPost
    \/ RunPoll
    \/ Query
    \/ Finally

Spec == Init /\ [][Next]_vars

\* The same program, run to its end: the interpreter always takes the next
\* step, every request being answered.
\* Whether it ends does not depend on which aliases and paths are configured,
\* so one facade with a well-formed and a malformed model path stands for all.
LiveInit ==
    /\ Init
    /\ model_path \in {<<"/", "/", "repo", "/", "projA", "/", "studyB", "/", "caseC">>,
                       <<"/", "/", "repo", "/", "projA">>}
    /\ input_defs = {"oil_rate"}
    /\ output_defs = <<<<"bhp", "p_bhp">>>>

LiveSpec == LiveInit /\ [][Next]_vars /\ WF_vars(Next)

\* ------------------------- create_init_request alone, on generated paths
InitPath ==
    /\ model_path \in PathInputs
    /\ input_defs = {}
    /\ output_defs = <<>>
    /\ input_values = {}
    /\ pc = "unit"
    /\ reqs = <<>>
    /\ sleeps = <<>>
    /\ calls = <<>>
    /\ outcome = [m \in Methods |-> "not_called"]
    /\ location = "unset"
    /\ model = "unbound"
    /\ init_request = NoRequest("not_built")
    /\ output = {}
    /\ try_exc = "none"
    /\ exc = "none"
    /\ exc_site = "none"

CallCreateInitRequest ==
    /\ pc = "unit"
    /\ init_request' = create_init_request(model_path)
    /\ exc' = init_request'.exc
    /\ exc_site' = "unit"
    /\ pc' = "unit_done"
    /\ UNCHANGED <<config, reqs, sleeps, calls, outcome, location, model, output, try_exc>>

NextPath == CallCreateInitRequest

SpecPath == InitPath /\ [][NextPath]_vars

\* ================================================================ claims
CallCount(m) == Cardinality({i \in 1..Len(calls) : calls[i] = m})

Idx(op) == {i \in 1..Len(reqs) : reqs[i].op = op}

Raised(m) == outcome[m] \notin {"not_called", "active", "returned"}

\* C1 (as stated): when SteadyStateModel.run has ended, close_steady_state was
\* called exactly once for every open_steady_state call.
C1_OneClosePerOpenCall ==
    pc = "done" => CallCount("close_steady_state") = CallCount("open_steady_state")

\* C1 (amended): close_steady_state is called exactly once for every
\* open_steady_state call that returned a client, also when run or query
\* raised, and not at all when open_steady_state raised; never before the
\* try body is left.
C1_OneClosePerOpenedSession ==
    /\ CallCount("open_steady_state") <= 1
    /\ pc # "done" => CallCount("close_steady_state") = 0
    /\ pc = "done" =>
         CallCount("close_steady_state") =
             (IF outcome["open_steady_state"] = "returned" THEN 1 ELSE 0)

C1_Witness ==
    /\ pc = "done"
    /\ outcome["open_steady_state"] = "returned"
    /\ Raised("query")
    /\ CallCount("close_steady_state") = 1

\* C2: when SteadyStateModel.run has ended, every session that a create-session
\* POST answered 202 (with its Location header) provisioned has been released
\* by a later DELETE request.
C2_ProvisionedSessionReleased ==
    pc = "done" =>
        \A i \in Idx("create_session") :
            (reqs[i].status = ACCEPTED /\ location = "loc") =>
                \E j \in Idx("close_session") \cup Idx("cleanup_delete") : j > i

\* C3: once open_steady_state has ended after an init POST answered other than
\* 201, one cleanup DELETE followed the init POST and open_steady_state failed
\* with SessionError.
C3_InitFailureIsSessionError ==
    \A i \in Idx("init") :
        (reqs[i].status # CREATED /\ outcome["open_steady_state"] # "active") =>
            /\ Cardinality(Idx("cleanup_delete")) = 1
            /\ outcome["open_steady_state"] = "SessionError"

\* C4: a create-session answer of 401 or 405 makes open_steady_state raise
\* AuthError with no status poll; 202 with a Location header leads to the
\* status poll; any other answer raises SessionError with no status poll.
C4_CreateSessionClassified ==
    \A i \in Idx("create_session") :
        /\ reqs[i].status \in {UNAUTHORIZED, METHOD_NOT_ALLOWED} =>
             outcome["open_steady_state"] = "AuthError" /\ Idx("poll_session") = {}
        /\ (reqs[i].status = ACCEPTED /\ location = "loc") =>
             \/ pc = "poll" /\ outcome["open_steady_state"] = "active"
             \/ Idx("poll_session") # {}
        /\ reqs[i].status \notin {UNAUTHORIZED, METHOD_NOT_ALLOWED, ACCEPTED} =>
             outcome["open_steady_state"] = "SessionError" /\ Idx("poll_session") = {}

C4_Witness ==
    /\ Len(reqs) = 1
    /\ reqs[1].op = "create_session"
    /\ reqs[1].status = METHOD_NOT_ALLOWED
    /\ try_exc = "AuthError"

\* C5: k Pending answers followed by Running cost exactly k sleeps and k+1
\* status GETs, and only then does open_steady_state go on to initialize; a
\* Failed or unrecognized status code raises CoFlowError, and no status GET
\* and no init POST follows it.
SessionPollSleeps ==
    Cardinality({i \in 1..Len(sleeps) : sleeps[i][1] = "poll_session"})

RunningSeen ==
    \E i \in Idx("poll_session") : reqs[i].status = OK /\ reqs[i].code = Running

C5_SessionPolling ==
    /\ SessionPollSleeps = PendingSeen
    /\ RunningSeen => Cardinality(Idx("poll_session")) = PendingSeen + 1
    /\ (pc \in {"init", "cleanup", "run", "runpoll", "query"} \/ Idx("init") # {})
         => RunningSeen
    /\ \A i \in Idx("poll_session") :
         (reqs[i].status = OK /\ reqs[i].code \notin {Pending, Running}) =>
            /\ outcome["open_steady_state"] = "CoFlowError"
            /\ \A j \in Idx("poll_session") : j <= i
            /\ Idx("init") = {}

C5_Witness ==
    /\ pc = "init"
    /\ PendingSeen = 2
    /\ SessionPollSleeps = 2
    /\ Cardinality(Idx("poll_session")) = 3

\* C6: the output mapping that SteadyStateModel.run returns has exactly the
\* declared output aliases as its keys.
DeclaredOutputAliases == {output_defs[i][1] : i \in 1..Len(output_defs)}

C6_OutputKeysAreDeclaredAliases ==
    (pc = "done" /\ exc = "none") => {kv[1] : kv \in output} = DeclaredOutputAliases

\* The '/'-separated segments of the URL path of a model path.
PathSegments(p) ==
    LET path == urlsplit(p).path
    IN  IF path = <<>> THEN <<>>
        ELSE IF path[1] = "/" THEN Tail(split(path))
        ELSE split(path)

BarePath == <<"repo", "/", "projA", "/", "studyB", "/", "caseC">>
AuthorityPath == <<"/", "/", "repo", "/", "projA", "/", "studyB", "/", "caseC">>

\* C7 (as stated): every init request has the authority as repositoryName and
\* the first, second and third path segments as projectName, studyName and
\* caseName; "repo/projA/studyB/caseC" gives repo, projA, studyB, caseC.
C7_FirstThreeSegments ==
    (pc = "unit_done" /\ init_request.exc = "none") =>
        /\ init_request.repositoryName = urlsplit(model_path).netloc
        /\ init_request.projectName = PathSegments(model_path)[1]
        /\ init_request.studyName = PathSegments(model_path)[2]
        /\ init_request.caseName = PathSegments(model_path)[3]
        /\ model_path = BarePath =>
             init_request = [exc |-> "none", repositoryName |-> <<"repo">>,
                             projectName |-> <<"projA">>, studyName |-> <<"studyB">>,
                             caseName |-> <<"caseC">>]

\* C7 (amended): repositoryName is the authority; projectName, studyName and
\* caseName are the first three path segments when the URL path begins with
\* "/" (as it does whenever there is an authority), and the second to fourth
\* when it does not; "//repo/projA/studyB/caseC" gives repo, projA, studyB,
\* caseC, and the bare "repo/projA/studyB/caseC" gives an empty repositoryName
\* with projA, studyB, caseC.
C7_ComponentsOneToThree ==
    (pc = "unit_done" /\ init_request.exc = "none") =>
        LET u == urlsplit(model_path)
            segs == PathSegments(model_path)
            k == IF u.path[1] = "/" THEN 0 ELSE 1
        IN  /\ init_request.repositoryName = u.netloc
            /\ u.netloc # <<>> => u.path[1] = "/"
            /\ init_request.projectName = segs[k + 1]
            /\ init_request.studyName = segs[k + 2]
            /\ init_request.caseName = segs[k + 3]
            /\ model_path = AuthorityPath =>
                 init_request = [exc |-> "none", repositoryName |-> <<"repo">>,
                                 projectName |-> <<"projA">>, studyName |-> <<"studyB">>,
                                 caseName |-> <<"caseC">>]
            /\ model_path = BarePath =>
                 init_request = [exc |-> "none", repositoryName |-> <<>>,
                                 projectName |-> <<"projA">>, studyName |-> <<"studyB">>,
                                 caseName |-> <<"caseC">>]

C7_Witness ==
    /\ pc = "unit_done"
    /\ model_path = AuthorityPath
    /\ init_request.repositoryName = <<"repo">>
    /\ init_request.caseName = <<"caseC">>

\* C8: for a model path that cannot be parsed or has fewer than three path
\* segments, create_init_request raises (IndexError, or the parser's
\* ValueError) and returns no request, open_steady_state fails with that
\* error, and no init POST is ever issued.
Malformed(p) == urlsplit(p).exc # "none" \/ Len(PathSegments(p)) < 3

AuthFailure(i) == reqs[i].status \in {UNAUTHORIZED, METHOD_NOT_ALLOWED}

C9_AuthFailureIsAuthError ==
    \A i \in 1..Len(reqs) : AuthFailure(i) => reqs[i].result = "AuthError"

\* C9 (amended): only the create-session call raises AuthError on 401 or 405;
\* the session-status poll, run POST, run-status poll, query POST and close
\* DELETE raise SessionError on it, and the init POST never raises AuthError.
C9_OnlyCreateRaisesAuthError ==
    \A i \in 1..Len(reqs) :
        /\ (AuthFailure(i) /\ reqs[i].op = "create_session") => reqs[i].result = "AuthError"
        /\ (AuthFailure(i) /\ reqs[i].op \in
                {"poll_session", "run", "poll_run", "query", "close_session"})
             => reqs[i].result = "SessionError"
        /\ reqs[i].op # "create_session" => reqs[i].result # "AuthError"
        /\ \A m \in Methods \ {"open_steady_state"} : outcome[m] # "AuthError"

C9_Witness ==
    \E i \in Idx("query") :
        /\ reqs[i].status = UNAUTHORIZED
        /\ outcome["query"] = "SessionError"

\* C10 (as stated): the run POST comes after an init POST answered 201, the
\* query POST after a run-status poll that returned a terminal status, the
\* close DELETE after the query POST, and no request comes after a DELETE.
TerminalPoll(j) ==
    /\ reqs[j].op = "poll_run"
    /\ reqs[j].status = OK
    /\ reqs[j].run_status \in {"Succeeded", "Failed"}

C10_RunQueryCloseOrder ==
    /\ \A i \in Idx("run") :
         \E j \in Idx("init") : j < i /\ reqs[j].status = CREATED
    /\ \A i \in Idx("query") : \E j \in 1..(i - 1) : TerminalPoll(j)
    /\ \A i \in Idx("close_session") : \E j \in Idx("query") : j < i
    /\ \A i \in Idx("close_session") \cup Idx("cleanup_delete") : i = Len(reqs)

\* C10 (amended): as stated, except that the close DELETE also comes when
\* SteadyState.run raised, and then without any query POST.
C10_RunQueryCloseOrderOrRunRaised ==
    /\ \A i \in Idx("run") :
         \E j \in Idx("init") : j < i /\ reqs[j].status = CREATED
    /\ \A i \in Idx("query") : \E j \in 1..(i - 1) : TerminalPoll(j)
    /\ \A i \in Idx("close_session") :
         \/ \E j \in Idx("query") : j < i
         \/ Raised("run") /\ Idx("query") = {} /\ \E j \in Idx("run") : j < i
    /\ \A i \in Idx("close_session") \cup Idx("cleanup_delete") : i = Len(reqs)

C10_Witness ==
    /\ pc = "done"
    /\ exc = "none"
    /\ output # {}
    /\ Cardinality(Idx("query")) = 1
    /\ Cardinality(Idx("close_session")) = 1

\* C11: nothing is retried. The create-session, init, run and query POSTs are
\* each issued at most once, and after a response that raised AuthError,
\* SessionError or CoFlowError the only request that may follow is the close
\* DELETE.
IsError(result) == result \in {"AuthError", "SessionError", "CoFlowError"}

C11_NoRetry ==
    /\ \A op \in {"create_session", "init", "run", "query", "close_session", "cleanup_delete"} :
         Cardinality(Idx(op)) <= 1
    /\ \A i \in 1..Len(reqs) :
         reqs[i].result = "cleanup" =>
            \A j \in (i + 1)..Len(reqs) : j = i + 1 /\ reqs[j].op = "cleanup_delete"
    /\ \A i \in 1..Len(reqs) :
         IsError(reqs[i].result) =>
            /\ pc \in {"finally", "done"}
            /\ \A j \in (i + 1)..Len(reqs) :
                 reqs[j].op = "close_session" /\ reqs[i].op # "close_session"

C11_Witness ==
    /\ pc = "done"
    /\ Len(reqs) >= 2
    /\ reqs[Len(reqs) - 1].op = "run"
    /\ reqs[Len(reqs) - 1].result = "SessionError"
    /\ reqs[Len(reqs)].op = "close_session"

\* C12: the polling loops have no iteration limit. However many Pending
\* answers came before, a Pending answer is followed by another status GET,
\* the operation is still in the loop and nothing was closed; the loop is left
\* only after a non-Pending code or a non-200 answer. The same holds of the
\* run-status loop and a non-terminal status.
IsPending(i) ==
    reqs[i].op = "poll_session" /\ reqs[i].status = OK /\ reqs[i].code = Pending

IsNonTerminal(i) ==
    /\ reqs[i].op = "poll_run"
    /\ reqs[i].status = OK
    /\ reqs[i].run_status \notin {"Succeeded", "Failed"}

C12_LoopsUnbounded ==
    /\ \A i \in 1..Len(reqs) :
         IsPending(i) =>
            /\ i < Len(reqs) => reqs[i + 1].op = "poll_session"
            /\ i = Len(reqs) =>
                 pc = "poll" /\ outcome["open_steady_state"] = "active" /\ sleeps # <<>>
    /\ (location = "loc" /\ pc \notin {"start", "open", "poll"}) =>
         \E i \in Idx("poll_session") : ~IsPending(i)
    /\ \A i \in 1..Len(reqs) :
         IsNonTerminal(i) =>
            /\ i < Len(reqs) => reqs[i + 1].op = "poll_run"
            /\ i = Len(reqs) =>
                 pc = "runpoll" /\ outcome["run"] = "active" /\ Idx("close_session") = {}
    /\ ((\E i \in Idx("run") : reqs[i].status = ACCEPTED) /\ pc # "runpoll") =>
         \E i \in Idx("poll_run") : ~IsNonTerminal(i)

C12_Witness ==
    /\ pc = "runpoll"
    /\ PendingSeen = MaxPolls
    /\ NonTerminalSeen = MaxRunPolls
    /\ IsNonTerminal(Len(reqs))
    /\ Idx("close_session") = {}

\* C13: SteadyState.run treats the two terminal run statuses alike. After a
\* 200 run-status answer of Succeeded or of Failed it polls no more and
\* returns without raising, and SteadyStateModel.run goes on to the query
\* POST.
C13_TerminalStatusesAlike ==
    \A i \in 1..Len(reqs) :
      TerminalPoll(i) =>
        /\ reqs[i].result = "done"
        /\ outcome["run"] = "returned"
        /\ \A j \in (i + 1)..Len(reqs) : reqs[j].op # "poll_run"
        /\ \/ pc = "query" /\ i = Len(reqs)
           \/ i < Len(reqs) /\ reqs[i + 1].op = "query"

C13_Witness ==
    /\ \E i \in 1..Len(reqs) :
         /\ TerminalPoll(i)
         /\ reqs[i].run_status = "Failed"
         /\ i < Len(reqs)
         /\ reqs[i + 1].op = "query"
         /\ reqs[i + 1].status = OK
    /\ pc = "done"
    /\ exc = "none"

\* C14: when a declared input alias has no supplied value,
\* SteadyStateModel.run ends with a KeyError and nothing else happened: no
\* request was sent, and neither open_steady_state nor close_steady_state was
\* called.
MissingInput == \E a \in input_defs : a \notin input_values

C14_MissingInputFailsFirst ==
    MissingInput =>
        /\ reqs = <<>>
        /\ calls = <<>>
        /\ sleeps = <<>>
        /\ \A m \in Methods : outcome[m] = "not_called"
        /\ location = "unset"
        /\ pc \in {"start", "done"}
        /\ pc = "done" => exc = "KeyError" /\ exc_site = "start" /\ output = {}

C14_Witness ==
    /\ MissingInput
    /\ pc = "done"
    /\ exc = "KeyError"
    /\ reqs = <<>>

\* C15: the session-status poll (200), the run POST (202), the run-status poll
\* (200), the query POST (200) and the close DELETE (202) are each checked
\* against the expected status. On a mismatch the call fails with SessionError
\* and no request of a later step follows, the close DELETE apart.
CheckedOps == {"poll_session", "run", "poll_run", "query", "close_session"}

Expected(op) ==
    CASE op = "poll_session" -> OK
      [] op = "run" -> ACCEPTED
      [] op = "poll_run" -> OK
      [] op = "query" -> OK
      [] op = "close_session" -> ACCEPTED

MethodOf(op) ==
    CASE op = "poll_session" -> "open_steady_state"
      [] op = "run" -> "run"
      [] op = "poll_run" -> "run"
      [] op = "query" -> "query"
      [] op = "close_session" -> "close_steady_state"

C15_StatusChecked ==
    \A i \in 1..Len(reqs) :
      reqs[i].op \in CheckedOps =>
        /\ reqs[i].status # Expected(reqs[i].op) =>
             /\ reqs[i].result = "SessionError"
             /\ outcome[MethodOf(reqs[i].op)] = "SessionError"
             /\ \A j \in (i + 1)..Len(reqs) :
                  reqs[j].op = "close_session" /\ reqs[i].op # "close_session"
             /\ pc \in {"finally", "done"}
             /\ pc = "done" => exc # "none"
        /\ reqs[i].status = Expected(reqs[i].op) => reqs[i].result # "SessionError"

C15_Witness ==
    /\ pc = "done"
    /\ \E i \in Idx("poll_run") : reqs[i].status # OK /\ reqs[i].result = "SessionError"
    /\ \E i \in Idx("close_session") : reqs[i].status = ACCEPTED
    /\ Idx("query") = {}
    /\ exc = "SessionError"

\* C16: the init POST is sent, and open_steady_state returns a client, only
\* after a session-status poll answered Running, and that answer is the last
\* one polled; no init, run, run-status or query request exists for a session
\* that was not seen Running.
SessionOps == {"init", "cleanup_delete", "run", "poll_run", "query"}

C16_InitOnlyAfterRunning ==
    /\ \A i \in 1..Len(reqs) :
         reqs[i].op \in SessionOps =>
            \E j \in Idx("poll_session") :
               /\ j < i
               /\ reqs[j].status = OK
               /\ reqs[j].code = Running
               /\ \A k \in Idx("poll_session") : k <= j
    /\ (outcome["open_steady_state"] = "returned" \/ model = "bound") => RunningSeen
    /\ \A i \in Idx("poll_session") :
         (reqs[i].status # OK \/ reqs[i].code \notin {Pending, Running}) =>
            /\ \A j \in (i + 1)..Len(reqs) : reqs[j].op \notin SessionOps
            /\ model = "unbound"

C16_Witness ==
    /\ \E i \in Idx("poll_session") : reqs[i].status = OK /\ reqs[i].code = Pending
    /\ \E i \in Idx("init") : reqs[i].status = CREATED
    /\ outcome["open_steady_state"] = "returned"
    /\ pc = "run"

\* C17 (as stated): when open_steady_state failed with AuthError, SessionError,
\* CoFlowError or a path-parse error, the error SteadyStateModel.run raises
\* to its caller is that same error.
OpenErrors == {"AuthError", "SessionError", "CoFlowError", "IndexError", "ValueError"}

C17_OpenErrorReachesCaller ==
    (pc = "done" /\ outcome["open_steady_state"] \in OpenErrors) =>
        exc = outcome["open_steady_state"]

\* C18: SteadyStateModel.run returns its output only if the close DELETE was
\* answered 202. A close answered otherwise makes the operation raise the
\* close's SessionError, after a successful query as well as after an error of
\* run or query, which it replaces.
C18_CloseFailureDecides ==
    /\ (pc = "done" /\ exc = "none") =>
         /\ \E i \in Idx("close_session") : reqs[i].status = ACCEPTED
         /\ outcome["query"] = "returned"
         /\ try_exc = "none"
    /\ \A i \in Idx("close_session") :
         reqs[i].status # ACCEPTED =>
            /\ pc = "done"
            /\ exc = "SessionError"
            /\ exc_site = "finally"
            /\ outcome["close_steady_state"] = "SessionError"

C18_Witness ==
    /\ pc = "done"
    /\ try_exc = "KeyError"
    /\ outcome["query"] = "returned"
    /\ \E i \in Idx("close_session") : reqs[i].status # ACCEPTED
    /\ exc = "SessionError"

\* C19: when every request is answered and the service stops answering
\* Pending and answers a terminal run status in the end, every execution of
\* SteadyStateModel.run terminates, returning or raising. Every step lowers
\* Rank, a natural number, so no execution goes on for ever.
PhaseRank ==
    CASE pc = "start" -> 9
      [] pc = "open" -> 8
      [] pc = "poll" -> 7
      [] pc = "init" -> 6
      [] pc = "cleanup" -> 5
      [] pc = "run" -> 4
      [] pc = "runpoll" -> 3
      [] pc = "query" -> 2
      [] pc = "finally" -> 1
      [] OTHER -> 0

Rank == PhaseRank + (MaxPolls - PendingSeen) + (MaxRunPolls - NonTerminalSeen)

C19_Terminates ==
    /\ <>(pc = "done")
    /\ [][Rank' < Rank /\ Rank' >= 0]_vars

C19_Witness ==
    /\ pc = "done"
    /\ exc = "none"
    /\ PendingSeen >= 1
    /\ NonTerminalSeen >= 1
    /\ \E i \in Idx("poll_run") : reqs[i].run_status = "Failed"

====
